---- MODULE Spec2Model ----
(***************************************************************************)
(* State-machine model of the SKYPOINT_SOCIAL post scheduler: the posts    *)
(* collection, the /api/posts handlers (POST, PUT, DELETE), the inbound    *)
(* Notion webhook, the two scheduled-dispatch triggers (direct posting and *)
(* Make.com forwarding), the Make.com cleanup callback and the dispatch    *)
(* aggregator postToSocialMedia with its publishers.                       *)
(*                                                                         *)
(* A document is a TLA+ record; a field the code never set is a field the  *)
(* record does not have ("platforms" \notin DOMAIN post is JavaScript's    *)
(* post.platforms === undefined).  Mongo's {$set: f} is f @@ post.         *)
(* Pass-through text fields with no logic attached (team, post_notes,      *)
(* notion_page_id) are left out of the documents.  The record store is     *)
(* taken to be reachable: its own failures are not modelled.               *)
(***************************************************************************)
EXTENDS Integers, Sequences, FiniteSets, TLC

\* ---------------------------------------------------------------- bounds
MaxPosts == 2          \* documents ever inserted, when the dispatch of a batch is examined
MaxPostsCrud == 1      \* documents ever inserted, when the handlers' effect on a record is examined
MaxTime == 1           \* the clock runs 0..MaxTime (one unit = one hour)
MaxDate == 2           \* scheduled dates are 0..MaxDate
MaxMedia == 2          \* URLs a post_media array grows to
MaxPlatforms == 3      \* platforms on a post, when the aggregator is examined

Triggers == {1, 2}     \* request slots in which a trigger invocation can run

\* part_002:36  new Date(now.getTime() + 60 * 60 * 1000), in hours
LookaheadHours == 1

\* ---------------------------------------------------------- input alphabets
Null == "null"                       \* JavaScript null / a missing form field
SECRET == "s3cret"
ServerKeys == {"", SECRET}           \* process.env.POST_SECRET_KEY ("" = unset)
SubmittedKeys == {Null, SECRET, "wrong"}

FinalStatuses == {"posted", "failed", "partial_success"}
Statuses == {"draft", "pending"} \cup FinalStatuses

\* values an id field can carry: 0 = missing, -1 = not a valid ObjectId
MissingId == 0
InvalidId == -1
IdInputs(cap) == {MissingId, InvalidId} \cup (1..cap)

Dates == 0..MaxDate

\* post_media is an array of URLs (the /api/posts handlers) or one string
\* (the Notion webhook); the two behave differently under .filter and .match
Arr(urls) == [array |-> urls]
Str(s) == [string |-> s]
IsArr(m) == "array" \in DOMAIN m
IsStr(m) == "string" \in DOMAIN m
\* JavaScript truthiness of a post_media value: any array, a non-empty string
Truthy(m) == IsArr(m) \/ (IsStr(m) /\ m.string # "")
\* m.length
Length(m) == IF IsArr(m) THEN Len(m.array) ELSE IF m.string = "" THEN 0 ELSE 1

Has(rec, f) == f \in DOMAIN rec

\* String.prototype.toLowerCase on the platform names in use
ToLowerCase(s) ==
  CASE s = "LinkedIn" -> "linkedin"
    [] s = "Facebook" -> "facebook"
    [] OTHER -> s

VARIABLES
  posts,        \* the social_media_posts collection: _id -> document
  nextId,       \* the next ObjectId insertOne hands out
  now,          \* the wall clock
  env,          \* process.env: POST_SECRET_KEY, MAKE (webhook url and api key), LINKEDIN_ACCESS_TOKEN
  trig,         \* per request slot: the running trigger invocation's locals
  resp          \* the response of the handler step taken last

vars == <<posts, nextId, now, env, trig, resp>>

Ids == DOMAIN posts

\* ------------------------------------------------------------- publishers
\* what the network answers during one dispatch: LinkedIn's registerUpload,
\* the media download, the upload to the slot, and the ugcPosts request
NetOutcomes ==
  { [register |-> TRUE,  download |-> TRUE,  upload |-> TRUE,  publish |-> TRUE],
    [register |-> FALSE, download |-> TRUE,  upload |-> TRUE,  publish |-> TRUE],
    [register |-> TRUE,  download |-> FALSE, upload |-> TRUE,  publish |-> TRUE],
    [register |-> TRUE,  download |-> TRUE,  upload |-> FALSE, publish |-> TRUE],
    [register |-> TRUE,  download |-> TRUE,  upload |-> TRUE,  publish |-> FALSE] }

Failure(msg) == [success |-> FALSE, error |-> msg]

\* the stand-in publisher: always a synthesized URL
postToFacebook(post) ==
  [success |-> TRUE, links |-> [facebook |-> "https://facebook.com/post/1"]]

postToInstagram(post) ==
  [success |-> TRUE, links |-> [instagram |-> "https://instagram.com/p/1"]]

\* register -> download and upload -> publish when post_media is truthy,
\* a text-only publish otherwise; the outer catch turns every throw
\* (a failed ugcPosts request, .match on an array) into success: false
postToLinkedIn(post, net) ==
  IF ~env.LINKEDIN_ACCESS_TOKEN
  THEN Failure("LinkedIn access token not configured")
  ELSE IF Has(post, "post_media") /\ Truthy(post.post_media)
  THEN IF IsArr(post.post_media)
       THEN Failure("post.post_media.match is not a function")
       ELSE IF ~net.register
       THEN Failure("Failed to register media upload with LinkedIn")
       ELSE IF ~net.download
       THEN Failure("Failed to download media")
       ELSE IF ~net.upload
       THEN Failure("Failed to upload media to LinkedIn")
       ELSE IF ~net.publish
       THEN Failure("LinkedIn API error")
       ELSE [success |-> TRUE,
             links |-> [linkedin |-> "https://www.linkedin.com/feed/update/1"]]
  ELSE IF ~net.publish
  THEN Failure("LinkedIn API error")
  ELSE [success |-> TRUE,
        links |-> [linkedin |-> "https://www.linkedin.com/feed/update/1"]]

\* the switch of postToSocialMedia
PlatformResult(post, platform, net) ==
  CASE ToLowerCase(platform) = "facebook" -> postToFacebook(post)
    [] ToLowerCase(platform) = "linkedin" -> postToLinkedIn(post, net)
    [] ToLowerCase(platform) = "instagram" -> postToInstagram(post)
    [] OTHER -> Failure("Unsupported platform")

\* variant of MergeResult that keeps the last error only
MergeResult_LastErrorOnly(results, platform, platformResult) ==
  LET r1 == IF ~platformResult.success
            THEN [results EXCEPT !.success = FALSE] ELSE results
      r2 == IF Has(platformResult, "links")
            THEN [r1 EXCEPT !.links = platformResult.links @@ r1.links] ELSE r1
      part == [platform |-> platform, error |-> platformResult.error]
  IN IF Has(platformResult, "error")
     THEN ("error" :> <<part>>) @@ r2
     ELSE r2

\* one turn of the loop of postToSocialMedia: the success flag, the merged
\* links, and the error message (the "; "-joined string is kept as the
\* sequence of its "<platform>: <error>" parts)
MergeResult(results, platform, platformResult) ==
  LET r1 == IF ~platformResult.success
            THEN [results EXCEPT !.success = FALSE] ELSE results
      r2 == IF Has(platformResult, "links")
            THEN [r1 EXCEPT !.links = platformResult.links @@ r1.links] ELSE r1
      part == [platform |-> platform, error |-> platformResult.error]
  IN IF Has(platformResult, "error")
     THEN ("error" :> (IF Has(r2, "error") THEN Append(r2.error, part) ELSE <<part>>)) @@ r2
     ELSE r2

\* variant of Aggregate that leaves the loop at the first platform that fails
RECURSIVE Aggregate_StopAtFailure(_, _, _, _)
Aggregate_StopAtFailure(post, net, i, results) ==
  IF i > Len(post.platforms) \/ ~results.success
  THEN results
  ELSE Aggregate_StopAtFailure(post, net, i + 1,
         MergeResult(results, post.platforms[i],
                     PlatformResult(post, post.platforms[i], net)))

RECURSIVE Aggregate(_, _, _, _)
Aggregate(post, net, i, results) ==
  IF i > Len(post.platforms)
  THEN results
  ELSE Aggregate(post, net, i + 1,
         MergeResult(results, post.platforms[i],
                     PlatformResult(post, post.platforms[i], net)))

\* variant of postToSocialMedia that reports a post with no platform as failed
postToSocialMedia_NeedsPlatform(post, net) ==
  IF ~Has(post, "platforms")
  THEN [threw |-> TRUE]
  ELSE IF post.platforms = <<>>
  THEN [threw |-> FALSE,
        value |-> [success |-> FALSE, links |-> <<>>,
                   error |-> <<[platform |-> "", error |-> "No platforms"]>>]]
  ELSE [threw |-> FALSE,
        value |-> Aggregate(post, net, 1, [success |-> TRUE, links |-> <<>>])]

\* the dispatch aggregator; iterating an undefined platforms list throws
postToSocialMedia(post, net) ==
  IF ~Has(post, "platforms")
  THEN [threw |-> TRUE]
  ELSE [threw |-> FALSE,
        value |-> Aggregate(post, net, 1, [success |-> TRUE, links |-> <<>>])]

\* --------------------------------------------------------- request inputs
\* a JSON form field: absent, unparseable, or a parsed object
Missing == [missing |-> TRUE]
Malformed == [malformed |-> TRUE]
Json(v) == [value |-> v]

Files == {"a.png", "b.mp4"}

\* the secure_url Cloudinary answers for an uploaded file
SecureUrl(file) ==
  CASE file = "a.png" -> "https://res.cloudinary.com/a.png"
    [] OTHER -> "https://res.cloudinary.com/b.mp4"

\* variant of UploadAll that collects the URLs last file first
UploadAll_Reversed(mediaFiles) ==
  [i \in 1..Len(mediaFiles) |-> SecureUrl(mediaFiles[Len(mediaFiles) + 1 - i])]

\* the loop over the files: one upload after the other, mediaUrls.push
UploadAll(mediaFiles) == [i \in 1..Len(mediaFiles) |-> SecureUrl(mediaFiles[i])]

\* ------------------------------------------------------------ /api/posts
Reply(code) == [code |-> code, posts |-> posts, nextId |-> nextId, id |-> 0]

\* Mongo's updateOne({_id: id}, {$set: fields}): no document, no write
UpdateOne(store, id, fields) ==
  IF id \in DOMAIN store THEN [store EXCEPT ![id] = fields @@ store[id]] ELSE store

InsertOne(store, id, doc) == (id :> doc) @@ store

\* variant of DeleteOne that removes the older documents along with the one named
DeleteOne_UpTo(store, id) == [i \in {j \in DOMAIN store : j > id} |-> store[i]]

DeleteOne(store, id) == [i \in (DOMAIN store) \ {id} |-> store[i]]

\* the URLs the upload service has handed out when the loop over the files
\* ends: all of them, or all before the last file when its upload failed
Uploaded(mediaFiles, uploadOk) ==
  IF uploadOk THEN UploadAll(mediaFiles)
  ELSE UploadAll(SubSeq(mediaFiles, 1, Len(mediaFiles) - 1))

\* variant of POST that checks the secret only when the request carries one
POST_KeyOptional(submittedKey, postDataJSON, mediaFiles, isDraft, uploadOk) ==
  LET serverKey == env.POST_SECRET_KEY IN
  IF serverKey = "" THEN Reply(500)
  ELSE IF submittedKey # Null /\ submittedKey # serverKey THEN Reply(401)
  ELSE IF Has(postDataJSON, "missing") THEN Reply(400)
  ELSE IF Has(postDataJSON, "malformed") THEN Reply(500)
  ELSE IF mediaFiles # <<>> /\ ~uploadOk
  THEN [uploaded |-> Uploaded(mediaFiles, FALSE)] @@ Reply(500)
  ELSE LET postData == postDataJSON.value
           mediaUrls == UploadAll(mediaFiles)
           newPost == [scheduled_date |-> postData.scheduled_date,
                       post_media |-> Arr(mediaUrls),
                       status |-> IF isDraft THEN "draft" ELSE "pending",
                       post_links |-> <<>>,
                       created_at |-> now,
                       updated_at |-> now] @@ postData
       IN [code |-> 201, posts |-> InsertOne(posts, nextId, newPost),
           nextId |-> nextId + 1, id |-> nextId, uploaded |-> mediaUrls]

\* the create handler
POST(submittedKey, postDataJSON, mediaFiles, isDraft, uploadOk) ==
  LET serverKey == env.POST_SECRET_KEY IN
  IF serverKey = "" THEN Reply(500)
  ELSE IF submittedKey # serverKey THEN Reply(401)
  ELSE IF Has(postDataJSON, "missing") THEN Reply(400)
  ELSE IF Has(postDataJSON, "malformed") THEN Reply(500)
  ELSE IF mediaFiles # <<>> /\ ~uploadOk
  THEN [uploaded |-> Uploaded(mediaFiles, FALSE)] @@ Reply(500)
  ELSE LET postData == postDataJSON.value
           mediaUrls == UploadAll(mediaFiles)
           newPost == [scheduled_date |-> postData.scheduled_date,
                       post_media |-> Arr(mediaUrls),
                       status |-> IF isDraft THEN "draft" ELSE "pending",
                       post_links |-> <<>>,
                       created_at |-> now,
                       updated_at |-> now] @@ postData
       IN [code |-> 201, posts |-> InsertOne(posts, nextId, newPost),
           nextId |-> nextId + 1, id |-> nextId, uploaded |-> mediaUrls]


\* variant of SecretGate that gates pending posts only (drafts go ungated)
SecretGate_PendingOnly(post, secretKey) ==
  IF post.status = "pending"
  THEN IF env.POST_SECRET_KEY = "" THEN 500
       ELSE IF secretKey # env.POST_SECRET_KEY THEN 401
       ELSE 0
  ELSE 0

\* the secret gate of PUT and DELETE: 0 when the request may proceed
SecretGate(post, secretKey) ==
  IF post.status = "draft" \/ post.status = "pending"
  THEN IF env.POST_SECRET_KEY = "" THEN 500
       ELSE IF secretKey # env.POST_SECRET_KEY THEN 401
       ELSE 0
  ELSE 0

\* post.post_media.filter((url, index) => !deletedMedia.some(d => d.index === index))
FilterMedia(urls, deletedMedia) ==
  LET keep == {i \in 1..Len(urls) : (i - 1) \notin deletedMedia}
      RECURSIVE Walk(_)
      Walk(i) == IF i > Len(urls) THEN <<>>
                 ELSE (IF i \in keep THEN <<urls[i]>> ELSE <<>>) \o Walk(i + 1)
  IN Walk(1)

\* the update handler
PUT(id, secretKey, postDataJSON, mediaFiles, deletedMedia, uploadOk) ==
  IF Has(postDataJSON, "malformed") THEN Reply(500)
  ELSE IF id = MissingId THEN Reply(400)
  ELSE IF id = InvalidId THEN Reply(400)
  ELSE IF id \notin Ids THEN Reply(404)
  ELSE LET post == posts[id] IN
    IF SecretGate(post, secretKey) # 0 THEN Reply(SecretGate(post, secretKey))
    ELSE IF Has(postDataJSON, "missing") THEN Reply(500)
    ELSE IF mediaFiles # <<>> /\ ~uploadOk
    THEN [uploaded |-> Uploaded(mediaFiles, FALSE)] @@ Reply(500)
    ELSE IF Has(post, "post_media") /\ IsStr(post.post_media) /\ Length(post.post_media) > 0
    THEN [uploaded |-> UploadAll(mediaFiles)] @@ Reply(500)
    ELSE LET updateData == postDataJSON.value
             mediaUrls == UploadAll(mediaFiles)
             kept == IF Has(post, "post_media") /\ Length(post.post_media) > 0
                     THEN FilterMedia(post.post_media.array, deletedMedia)
                     ELSE <<>>
             finalMediaUrls == kept \o mediaUrls
             updateFields ==
               (IF Len(finalMediaUrls) > 0 THEN [post_media |-> Arr(finalMediaUrls)] ELSE <<>>)
               @@ [scheduled_date |-> IF Has(updateData, "scheduled_date")
                                      THEN updateData.scheduled_date ELSE now,
                   updated_at |-> now]
               @@ updateData
         IN [code |-> 200, posts |-> UpdateOne(posts, id, updateFields),
             nextId |-> nextId, id |-> id, uploaded |-> mediaUrls]

\* the delete handler
DELETE(id, secretKey) ==
  IF id = MissingId THEN Reply(400)
  ELSE IF id = InvalidId THEN Reply(400)
  ELSE IF id \notin Ids THEN Reply(404)
  ELSE IF SecretGate(posts[id], secretKey) # 0 THEN Reply(SecretGate(posts[id], secretKey))
  ELSE [code |-> 200, posts |-> DeleteOne(posts, id), nextId |-> nextId, id |-> id]

\* Date.prototype.toISOString and ObjectId.prototype.toString: the value as
\* a string of that format
ToISOString(date) == [iso |-> date]
ObjectIdToString(id) == [hex |-> id]

\* the documents a listing's query matches: all of them without a filter
Matching(store, statusFilter) ==
  IF statusFilter = Null \/ statusFilter = "" THEN DOMAIN store
  ELSE {id \in DOMAIN store : store[id].status = statusFilter}

\* the order find(query).sort({created_at: -1}) can return the documents
\* ids in: newest first, documents of equal created_at in either order
SortedNewestFirst(store, ids) ==
  { order \in [1..Cardinality(ids) -> ids] :
      /\ \A i, j \in 1..Cardinality(ids) : i # j => order[i] # order[j]
      /\ \A i, j \in 1..Cardinality(ids) :
           i < j => store[order[i]].created_at >= store[order[j]].created_at }

\* cursor.skip(skip).limit(limit): a limit of 0 is no limit
SkipLimit(order, skip, limit) ==
  LET last == IF limit = 0 \/ skip + limit > Len(order) THEN Len(order) ELSE skip + limit
  IN SubSeq(order, skip + 1, last)

CountDocuments(store, status) == Cardinality({id \in DOMAIN store : store[id].status = status})

\* variant of GET whose counts are taken over the documents the query matches
GET_CountsOfQuery(limit, skip, statusFilter, order) ==
  LET page == SkipLimit(order, skip, limit)
      matched == [id \in Matching(posts, statusFilter) |-> posts[id]]
      listed(id) == [_id |-> ObjectIdToString(id),
                     created_at |-> ToISOString(posts[id].created_at),
                     updated_at |-> ToISOString(posts[id].updated_at),
                     scheduled_date |-> ToISOString(posts[id].scheduled_date)]
                    @@ posts[id]
  IN [code |-> 200, posts |-> posts, nextId |-> nextId, id |-> 0,
      body |-> [posts |-> [i \in 1..Len(page) |-> listed(page[i])],
                counts |-> [total |-> Cardinality(DOMAIN matched),
                            draft |-> CountDocuments(matched, "draft"),
                            pending |-> CountDocuments(matched, "pending"),
                            posted |-> CountDocuments(matched, "posted"),
                            failed |-> CountDocuments(matched, "failed"),
                            partialSuccess |-> CountDocuments(matched, "partial_success")]]]

\* the listing handler; order is the order the sort returned
GET(limit, skip, statusFilter, order) ==
  LET page == SkipLimit(order, skip, limit)
      listed(id) == [_id |-> ObjectIdToString(id),
                     created_at |-> ToISOString(posts[id].created_at),
                     updated_at |-> ToISOString(posts[id].updated_at),
                     scheduled_date |-> ToISOString(posts[id].scheduled_date)]
                    @@ posts[id]
  IN [code |-> 200, posts |-> posts, nextId |-> nextId, id |-> 0,
      body |-> [posts |-> [i \in 1..Len(page) |-> listed(page[i])],
                counts |-> [total |-> Cardinality(DOMAIN posts),
                            draft |-> CountDocuments(posts, "draft"),
                            pending |-> CountDocuments(posts, "pending"),
                            posted |-> CountDocuments(posts, "posted"),
                            failed |-> CountDocuments(posts, "failed"),
                            partialSuccess |-> CountDocuments(posts, "partial_success")]]]

\* ------------------------------------------------------- notion webhook
MissingDate == -1
\* variant of NotionWebhook that stores every record as pending, whatever
\* status the payload names
NotionWebhook_AlwaysPending(pageId, hasProperties, postText, postMedia, scheduledDate, statusName, platforms) ==
  IF ~hasProperties THEN Reply(500)
  ELSE IF pageId = Null \/ postText = "" \/ scheduledDate = MissingDate
  THEN Reply(400)
  ELSE LET newPost == [post_text |-> postText,
                       post_media |-> Str(postMedia),
                       scheduled_date |-> scheduledDate,
                       status |-> "pending",
                       platforms |-> platforms,
                       created_at |-> now,
                       updated_at |-> now]
       IN [code |-> 200, posts |-> InsertOne(posts, nextId, newPost),
           nextId |-> nextId + 1, id |-> nextId]

\* the inbound content-source webhook; hasProperties tells whether the
\* payload carries page.properties (reading it off a payload without it
\* throws, and the catch answers 500)
NotionWebhook(pageId, hasProperties, postText, postMedia, scheduledDate, statusName, platforms) ==
  LET status == IF statusName = "" THEN "pending" ELSE statusName IN
  IF ~hasProperties THEN Reply(500)
  ELSE IF pageId = Null \/ postText = "" \/ scheduledDate = MissingDate
  THEN Reply(400)
  ELSE LET newPost == [post_text |-> postText,
                       post_media |-> Str(postMedia),
                       scheduled_date |-> scheduledDate,
                       status |-> status,
                       platforms |-> platforms,
                       created_at |-> now,
                       updated_at |-> now]
       IN [code |-> 200, posts |-> InsertOne(posts, nextId, newPost),
           nextId |-> nextId + 1, id |-> nextId]

\* ----------------------------------------------------- cleanup callback

\* variant of Cleanup that puts a post with no URLs back in the queue
Cleanup_Requeue(post_id, post_links) ==
  IF post_id = MissingId THEN Reply(400)
  ELSE IF post_id = InvalidId THEN Reply(400)
  ELSE LET finalStatus == IF DOMAIN post_links # {} THEN "posted" ELSE "pending"
           updateFields == [status |-> finalStatus, updated_at |-> now, post_links |-> post_links]
       IN IF post_id \notin Ids
          THEN [code |-> 404, posts |-> posts, nextId |-> nextId, id |-> post_id]
          ELSE [code |-> 200, posts |-> UpdateOne(posts, post_id, updateFields),
                nextId |-> nextId, id |-> post_id]

\* variant of Cleanup that adds the reported URLs to the links stored earlier
Cleanup_KeepEarlierLinks(post_id, post_links) ==
  IF post_id = MissingId THEN Reply(400)
  ELSE IF post_id = InvalidId THEN Reply(400)
  ELSE LET finalStatus == IF DOMAIN post_links # {} THEN "posted" ELSE "failed"
           earlier == IF post_id \in Ids /\ Has(posts[post_id], "post_links")
                      THEN posts[post_id].post_links ELSE <<>>
           updateFields ==
             (IF finalStatus = "failed"
              THEN [failure_reason |-> "Make.com scenario completed but returned no post URLs."]
              ELSE <<>>)
             @@ [status |-> finalStatus, updated_at |-> now,
                 post_links |-> post_links @@ earlier]
       IN IF post_id \notin Ids
          THEN [code |-> 404, posts |-> posts, nextId |-> nextId, id |-> post_id]
          ELSE [code |-> 200, posts |-> UpdateOne(posts, post_id, updateFields),
                nextId |-> nextId, id |-> post_id]

\* the dispatch-completion callback
Cleanup(post_id, post_links) ==
  IF post_id = MissingId THEN Reply(400)
  ELSE IF post_id = InvalidId THEN Reply(400)
  ELSE LET finalStatus == IF DOMAIN post_links # {} THEN "posted" ELSE "failed"
           updateFields ==
             (IF finalStatus = "failed"
              THEN [failure_reason |-> "Make.com scenario completed but returned no post URLs."]
              ELSE <<>>)
             @@ [status |-> finalStatus, updated_at |-> now, post_links |-> post_links]
       IN IF post_id \notin Ids
          THEN [code |-> 404, posts |-> posts, nextId |-> nextId, id |-> post_id]
          ELSE [code |-> 200, posts |-> UpdateOne(posts, post_id, updateFields),
                nextId |-> nextId, id |-> post_id]

\* ------------------------------------------------------ dispatch trigger
\* find({status: 'pending', scheduled_date: {$lte: cutoff}}).toArray(), in
\* natural (insertion) order, each document carrying its _id
RECURSIVE FindFrom(_, _, _)
FindFrom(store, cutoff, id) ==
  IF id >= nextId THEN <<>>
  ELSE (IF id \in DOMAIN store
           /\ store[id].status = "pending"
           /\ store[id].scheduled_date <= cutoff
        THEN <<[_id |-> id] @@ store[id]>>
        ELSE <<>>) \o FindFrom(store, cutoff, id + 1)


\* variant of FindPending that takes failed posts again along with the
\* pending ones (an automatic retry)
RECURSIVE FindPending_RetryFrom(_, _, _)
FindPending_RetryFrom(store, cutoff, id) ==
  IF id >= nextId THEN <<>>
  ELSE (IF id \in DOMAIN store
           /\ store[id].status \in {"pending", "failed"}
           /\ store[id].scheduled_date <= cutoff
        THEN <<[_id |-> id] @@ store[id]>>
        ELSE <<>>) \o FindPending_RetryFrom(store, cutoff, id + 1)

FindPending_RetryFailed(store, cutoff) == FindPending_RetryFrom(store, cutoff, 1)

\* variant of FindPending whose window reaches one hour further
FindPending_WiderWindow(store, cutoff) == FindFrom(store, cutoff + 1, 1)

FindPending(store, cutoff) == FindFrom(store, cutoff, 1)

\* the cutoff of the selection: one hour ahead when posting directly,
\* the present when forwarding to the Make.com webhook
Cutoff(mode) == IF mode = "direct" THEN now + LookaheadHours ELSE now

Idle == [pc |-> "idle"]


\* variant of DirectUpdate whose catch branch records no status
DirectUpdate_NoFailedWrite(postResult) ==
  IF postResult.threw
  THEN [updated_at |-> now]
  ELSE [status |-> IF postResult.value.success THEN "posted" ELSE "failed",
        post_links |-> postResult.value.links,
        updated_at |-> now]

\* variant of DirectUpdate that stores the links of a fully successful
\* dispatch only
DirectUpdate_LinksOnSuccess(postResult) ==
  IF postResult.threw
  THEN [status |-> "failed", updated_at |-> now]
  ELSE [status |-> IF postResult.value.success THEN "posted" ELSE "failed",
        post_links |-> IF postResult.value.success THEN postResult.value.links ELSE <<>>,
        updated_at |-> now]

\* variant of DirectUpdate that leaves a post whose dispatch did not fully
\* succeed in the queue
DirectUpdate_RetryOnFailure(postResult) ==
  IF postResult.threw
  THEN [status |-> "pending", updated_at |-> now]
  ELSE [status |-> IF postResult.value.success THEN "posted" ELSE "pending",
        post_links |-> postResult.value.links,
        updated_at |-> now]

\* what the direct trigger writes back for one post, and reports for it
DirectUpdate(postResult) ==
  IF postResult.threw
  THEN [status |-> "failed", updated_at |-> now]
  ELSE [status |-> IF postResult.value.success THEN "posted" ELSE "failed",
        post_links |-> postResult.value.links,
        updated_at |-> now]

\* error is the thrown message in the catch branch, postResult.error || null
\* otherwise (the message as the sequence of its parts, null as no part)
DirectEntry(post, postResult) ==
  IF postResult.threw
  THEN [postId |-> post._id, status |-> "failed", success |-> FALSE,
        error |-> <<[thrown |-> "post.platforms is not iterable"]>>]
  ELSE [postId |-> post._id,
        status |-> DirectUpdate(postResult).status,
        links |-> postResult.value.links,
        success |-> postResult.value.success,
        error |-> IF Has(postResult.value, "error") THEN postResult.value.error ELSE <<>>]


\* variant of ForwardUpdate that leaves a post whose forward failed in the queue
ForwardUpdate_RetryLater(fetchOk) ==
  [status |-> IF fetchOk THEN "partial_success" ELSE "pending", updated_at |-> now]

\* variant of ForwardUpdate that writes no new status for a post it forwarded
ForwardUpdate_NoMark(fetchOk) ==
  [status |-> IF fetchOk THEN "pending" ELSE "failed", updated_at |-> now]

\* what the forwarding trigger writes back for one post, and reports for it
ForwardUpdate(fetchOk) ==
  [status |-> IF fetchOk THEN "partial_success" ELSE "failed", updated_at |-> now]

ForwardEntry(post, fetchOk) ==
  [postId |-> post._id, status |-> IF fetchOk THEN "success" ELSE "error"]

\* ---------------------------------------------------------------- actions
\* process.env of a deployment
Configured == [POST_SECRET_KEY |-> SECRET, MAKE |-> TRUE, LINKEDIN_ACCESS_TOKEN |-> TRUE]
NoSecretKey == [Configured EXCEPT !.POST_SECRET_KEY = ""]
NoMakeNoToken == [Configured EXCEPT !.MAKE = FALSE, !.LINKEDIN_ACCESS_TOKEN = FALSE]

InitWith(envs) ==
  /\ posts = <<>>
  /\ nextId = 1
  /\ now = 0
  /\ env \in envs
  /\ trig = [t \in Triggers |-> Idle]
  /\ resp = [op |-> "init", code |-> 0, id |-> 0]

\* time passes
Tick ==
  /\ now < MaxTime
  /\ now' = now + 1
  /\ resp' = [op |-> "tick", code |-> 0, id |-> 0]
  /\ UNCHANGED <<posts, nextId, env, trig>>

\* the bounds on what a handler may store
WithinBounds(r, cap) ==
  /\ r.nextId <= cap + 1
  /\ \A i \in DOMAIN r.posts :
       (Has(r.posts[i], "post_media") /\ IsArr(r.posts[i].post_media))
         => Len(r.posts[i].post_media.array) <= MaxMedia

\* a handler of the store that runs to completion: its reply (with the
\* body of a listing and, where the caller records it, the request), its
\* writes and what it uploaded to the media host
Handle(op, id, r, cap) ==
  /\ WithinBounds(r, cap)
  /\ posts' = r.posts
  /\ nextId' = r.nextId
  /\ resp' = [op |-> op, code |-> r.code, id |-> id,
              uploaded |-> IF Has(r, "uploaded") THEN r.uploaded ELSE <<>>]
             @@ [f \in DOMAIN r \cap {"request", "body"} |-> r[f]]
  /\ UNCHANGED <<now, env, trig>>

\* the upload of a request with no files cannot fail
UploadOutcomes(mediaFiles) == IF mediaFiles = <<>> THEN {TRUE} ELSE BOOLEAN

CreatePost(keys, jsons, fileLists, cap) ==
  \E submittedKey \in keys, postDataJSON \in jsons, mediaFiles \in fileLists,
     isDraft \in BOOLEAN :
    \E uploadOk \in UploadOutcomes(mediaFiles) :
      LET r == POST(submittedKey, postDataJSON, mediaFiles, isDraft, uploadOk)
          request == [postData |-> postDataJSON, media |-> mediaFiles]
      IN Handle("POST", r.id, [request |-> request] @@ r, cap)

UpdatePost(ids, keys, jsons, fileLists, deletedSets) ==
  \E id \in ids, secretKey \in keys, postDataJSON \in jsons,
     mediaFiles \in fileLists, deletedMedia \in deletedSets :
    \E uploadOk \in UploadOutcomes(mediaFiles) :
      Handle("PUT", id, PUT(id, secretKey, postDataJSON, mediaFiles, deletedMedia, uploadOk), MaxPosts)

DeletePost(ids, keys) ==
  \E id \in ids, secretKey \in keys :
    Handle("DELETE", id, DELETE(id, secretKey), MaxPosts)

ListPosts(limits, skips, statusFilters) ==
  \E limit \in limits, skip \in skips, statusFilter \in statusFilters :
    \E order \in SortedNewestFirst(posts, Matching(posts, statusFilter)) :
      LET r == GET(limit, skip, statusFilter, order)
          request == [limit |-> limit, skip |-> skip, status |-> statusFilter]
      IN Handle("GET", 0, [request |-> request] @@ r, MaxPosts)

ReceiveNotionWebhook(pageIds, payloads, texts, medias, dates, statusNames, platformLists, cap) ==
  \E pageId \in pageIds, hasProperties \in payloads, postText \in texts, postMedia \in medias,
     scheduledDate \in dates, statusName \in statusNames, platforms \in platformLists :
    LET r == NotionWebhook(pageId, hasProperties, postText, postMedia, scheduledDate,
                           statusName, platforms)
    IN Handle("notion-webhook", r.id, r, cap)

ReceiveCleanup(ids, linkSets) ==
  \E post_id \in ids, post_links \in linkSets :
    Handle("cleanup", post_id, Cleanup(post_id, post_links), MaxPosts)

\* a new invocation runs in the lowest free request slot
FreeSlot(t) == trig[t].pc = "idle" /\ \A u \in Triggers : u < t => trig[u].pc # "idle"

\* the locals of an invocation that selected pendingPosts
Selected(mode, cutoff, pendingPosts) ==
  [pc |-> "loop", mode |-> mode, cutoff |-> cutoff,
   pendingPosts |-> pendingPosts, idx |-> 1, results |-> <<>>]


\* variant of StartTrigger with a claim step: the selected documents are
\* marked in flight in the store before any of them is dispatched
StartTrigger_Claiming(t, mode) ==
  /\ FreeSlot(t)
  /\ LET cutoff == Cutoff(mode)
         pendingPosts == FindPending(posts, cutoff)
     IN IF mode = "forward" /\ ~env.MAKE
        THEN /\ resp' = [op |-> "trigger", code |-> 500, id |-> 0, t |-> t, mode |-> mode]
             /\ UNCHANGED <<trig, posts>>
        ELSE IF Len(pendingPosts) = 0
        THEN /\ resp' = [op |-> "trigger", code |-> 200, id |-> 0, t |-> t, mode |-> mode]
             /\ UNCHANGED <<trig, posts>>
        ELSE /\ resp' = [op |-> "select", code |-> 0, id |-> 0, t |-> t, mode |-> mode]
             /\ trig' = [trig EXCEPT ![t] = Selected(mode, cutoff, pendingPosts)]
             /\ posts' = [i \in Ids |->
                            IF \E k \in 1..Len(pendingPosts) : pendingPosts[k]._id = i
                            THEN [posts[i] EXCEPT !.status = "in_flight"] ELSE posts[i]]
  /\ UNCHANGED <<nextId, now, env>>

\* the head of a trigger handler: the configuration check of the forwarding
\* trigger, the selection, and the early return when nothing is selected
StartTrigger(t, mode) ==
  /\ FreeSlot(t)
  /\ LET cutoff == Cutoff(mode)
         pendingPosts == FindPending(posts, cutoff)
     IN IF mode = "forward" /\ ~env.MAKE
        THEN /\ resp' = [op |-> "trigger", code |-> 500, id |-> 0, t |-> t, mode |-> mode]
             /\ UNCHANGED trig
        ELSE IF Len(pendingPosts) = 0
        THEN /\ resp' = [op |-> "trigger", code |-> 200, id |-> 0, t |-> t, mode |-> mode]
             /\ UNCHANGED trig
        ELSE /\ resp' = [op |-> "select", code |-> 0, id |-> 0, t |-> t, mode |-> mode]
             /\ trig' = [trig EXCEPT ![t] = Selected(mode, cutoff, pendingPosts)]
  /\ UNCHANGED <<posts, nextId, now, env>>

ProcessScheduledPosts(slots) == \E t \in slots : StartTrigger(t, "direct")

TriggerPosts(slots) == \E t \in slots : StartTrigger(t, "forward")


\* variant of LoopTurn that dispatches a post again in the same call when
\* its dispatch threw
LoopTurn_Redispatch(t, post, threw, succeeded, updateData, entry) ==
  LET last == trig[t].idx = Len(trig[t].pendingPosts) /\ ~threw
      results == Append(trig[t].results, entry)
  IN /\ posts' = UpdateOne(posts, post._id, updateData)
     /\ trig' = [trig EXCEPT ![t] =
                   IF last THEN Idle
                   ELSE [@ EXCEPT !.idx = IF threw THEN @ ELSE @ + 1, !.results = results]]
     /\ resp' = [op |-> "dispatch", code |-> IF last THEN 200 ELSE 0, id |-> post._id,
                 t |-> t, mode |-> trig[t].mode, threw |-> threw,
                 succeeded |-> succeeded, results |-> results]
     /\ Len(results) <= MaxPosts + 1
     /\ UNCHANGED <<nextId, now, env>>

\* variant of LoopTurn whose write-back is conditioned on the document still
\* being stored as pending
LoopTurn_IfStillPending(t, post, threw, succeeded, updateData, entry) ==
  LET last == trig[t].idx = Len(trig[t].pendingPosts)
      results == Append(trig[t].results, entry)
  IN /\ posts' = IF post._id \in Ids /\ posts[post._id].status = "pending"
                 THEN UpdateOne(posts, post._id, updateData) ELSE posts
     /\ trig' = [trig EXCEPT ![t] =
                   IF last THEN Idle
                   ELSE [@ EXCEPT !.idx = @ + 1, !.results = results]]
     /\ resp' = [op |-> "dispatch", code |-> IF last THEN 200 ELSE 0, id |-> post._id,
                 t |-> t, mode |-> trig[t].mode, threw |-> threw,
                 succeeded |-> succeeded, results |-> results]
     /\ UNCHANGED <<nextId, now, env>>

\* one turn of a trigger's loop over pendingPosts: the dispatch, the
\* write-back by _id, the results entry; the last turn returns the response,
\* whose body carries the results list.
\* succeeded lists what each platform's publisher returned, in list order
LoopTurn(t, post, threw, succeeded, updateData, entry) ==
  LET last == trig[t].idx = Len(trig[t].pendingPosts)
      results == Append(trig[t].results, entry)
  IN /\ posts' = UpdateOne(posts, post._id, updateData)
     /\ trig' = [trig EXCEPT ![t] =
                   IF last THEN Idle
                   ELSE [@ EXCEPT !.idx = @ + 1, !.results = results]]
     /\ resp' = [op |-> "dispatch", code |-> IF last THEN 200 ELSE 0, id |-> post._id,
                 t |-> t, mode |-> trig[t].mode, threw |-> threw,
                 succeeded |-> succeeded, results |-> results]
     /\ UNCHANGED <<nextId, now, env>>

Succeeded(post, net) ==
  IF Has(post, "platforms")
  THEN [i \in 1..Len(post.platforms) |-> PlatformResult(post, post.platforms[i], net).success]
  ELSE <<>>

\* the outcomes that differ for the post: only LinkedIn talks to the network
NetFor(post) ==
  IF Has(post, "platforms")
     /\ \E i \in 1..Len(post.platforms) : ToLowerCase(post.platforms[i]) = "linkedin"
  THEN NetOutcomes
  ELSE {CHOOSE n \in NetOutcomes : n.register /\ n.download /\ n.upload /\ n.publish}

DirectTurn ==
  \E t \in Triggers :
    /\ trig[t].pc = "loop"
    /\ trig[t].mode = "direct"
    /\ \E net \in NetFor(trig[t].pendingPosts[trig[t].idx]) :
         LET post == trig[t].pendingPosts[trig[t].idx]
             postResult == postToSocialMedia(post, net)
         IN LoopTurn(t, post, postResult.threw, Succeeded(post, net),
                     DirectUpdate(postResult), DirectEntry(post, postResult))

ForwardTurn ==
  \E t \in Triggers, fetchOk \in BOOLEAN :
    /\ trig[t].pc = "loop"
    /\ trig[t].mode = "forward"
    /\ LET post == trig[t].pendingPosts[trig[t].idx]
       IN LoopTurn(t, post, ~fetchOk, <<>>, ForwardUpdate(fetchOk), ForwardEntry(post, fetchOk))

\* ---------------------------------------------------------- specifications
\* Spec: every operation acting on one document
LifePosts ==
  { [post_text |-> "hi", scheduled_date |-> 0, platforms |-> p] : p \in {<<>>, <<"facebook">>} }
LifeUpdates ==
  { [post_text |-> "hi", scheduled_date |-> 0, platforms |-> p, status |-> s] :
      p \in {<<>>, <<"facebook">>}, s \in {"draft", "pending", "archived"} }

Init == InitWith({Configured})

Next ==
  \/ CreatePost({SECRET, "wrong"}, {Json(v) : v \in LifePosts}, {<<>>}, MaxPostsCrud)
  \/ UpdatePost(IdInputs(MaxPostsCrud), SubmittedKeys, {Json(v) : v \in LifeUpdates}, {<<>>}, {{}})
  \/ DeletePost(IdInputs(MaxPostsCrud), SubmittedKeys)
  \/ ReceiveNotionWebhook({"page-1"}, {TRUE}, {"hi"}, {""}, {0}, {"", "draft", "Scheduled"},
                          {<<>>, <<"facebook">>}, MaxPostsCrud)
  \/ ReceiveCleanup(IdInputs(MaxPostsCrud), {<<>>, [facebook |-> "https://make/fb"]})
  \/ ProcessScheduledPosts({1})
  \/ TriggerPosts({1})
  \/ DirectTurn
  \/ ForwardTurn

Spec == Init /\ [][Next]_vars

\* SpecDispatch: the two triggers, overlapping, over batches of documents
\* that differ in platforms and date
DispatchPosts ==
  { [post_text |-> "hi", scheduled_date |-> 0, platforms |-> <<"facebook">>],
    [post_text |-> "hi", scheduled_date |-> 1, platforms |-> <<"facebook", "twitter">>],
    [post_text |-> "hi", scheduled_date |-> 0, platforms |-> <<"twitter">>],
    [post_text |-> "hi", scheduled_date |-> MaxDate, platforms |-> <<"facebook">>],
    [post_text |-> "hi", scheduled_date |-> 0] }

InitDispatch == InitWith({Configured, NoMakeNoToken})

NextDispatch ==
  \/ CreatePost({SECRET}, {Json(v) : v \in DispatchPosts}, {<<>>}, MaxPosts)
  \/ UpdatePost(1..MaxPosts, {SECRET}, {Json([status |-> "pending"])}, {<<>>}, {{}})
  \/ ProcessScheduledPosts(Triggers)
  \/ TriggerPosts(Triggers)
  \/ DirectTurn
  \/ ForwardTurn

SpecDispatch == InitDispatch /\ [][NextDispatch]_vars

\* SpecAuth: the /api/posts handlers and the secret gate, media included
AuthPosts == { [post_text |-> "hi", scheduled_date |-> 1, platforms |-> <<"facebook">>] }
AuthUpdates ==
  { [post_text |-> "edited", scheduled_date |-> MaxDate, platforms |-> <<"facebook">>,
     status |-> "pending"],
    [post_text |-> "edited"] }

InitAuth == InitWith({Configured, NoSecretKey})

NextAuth ==
  \/ Tick
  \/ CreatePost(SubmittedKeys, {Missing, Malformed} \cup {Json(v) : v \in AuthPosts},
                {<<>>, <<"a.png">>}, MaxPostsCrud)
  \/ UpdatePost(1..MaxPostsCrud, SubmittedKeys,
                {Missing, Malformed} \cup {Json(v) : v \in AuthUpdates},
                {<<>>, <<"b.mp4">>}, {{}, {0}})
  \/ DeletePost(1..MaxPostsCrud, SubmittedKeys)
  \/ ReceiveNotionWebhook({"page-1"}, {TRUE}, {"hi"}, {"", "https://notion/file.png"}, {0},
                          {"draft"}, {<<"facebook">>}, MaxPostsCrud)
  \/ ReceiveCleanup(1..MaxPostsCrud, {<<>>, [facebook |-> "https://make/fb"]})
  \/ TriggerPosts({1})
  \/ ForwardTurn

SpecAuth == InitAuth /\ [][NextAuth]_vars

\* SpecAggregate: the direct trigger dispatching one document, over the
\* platform lists and the media a document can have
PlatformNames == {"facebook", "LinkedIn", "instagram", "twitter"}
PlatformLists == UNION {[1..k -> PlatformNames] : k \in 0..MaxPlatforms}
AggregatePosts ==
  { [post_text |-> "hi", scheduled_date |-> 0, platforms |-> p] : p \in PlatformLists }
  \cup { [post_text |-> "", scheduled_date |-> 0, platforms |-> <<"facebook">>] }

InitAggregate == InitWith({Configured, NoMakeNoToken})

NextAggregate ==
  \/ CreatePost({SECRET}, {Json(v) : v \in AggregatePosts}, {<<>>}, MaxPostsCrud)
  \/ ReceiveNotionWebhook({"page-1"}, {TRUE}, {"hi"}, {"", "https://notion/file.png"}, {0},
                          {""}, PlatformLists, MaxPostsCrud)
  \/ ProcessScheduledPosts({1})
  \/ DirectTurn

SpecAggregate == InitAggregate /\ [][NextAggregate]_vars

\* SpecList: creating and listing, with the completion callback changing
\* the statuses and the clock telling the documents' ages apart
DefaultLimit == 20
ListedPosts ==
  { [post_text |-> "hi", scheduled_date |-> 0, platforms |-> <<"facebook">>],
    [post_text |-> "yo", scheduled_date |-> 1, platforms |-> <<"linkedin", "facebook">>] }

NextList ==
  \/ Tick
  \/ CreatePost({SECRET}, {Json(v) : v \in ListedPosts}, {<<>>, <<"b.mp4", "a.png">>}, MaxPosts)
  \/ ReceiveCleanup(1..MaxPosts, {<<>>, [facebook |-> "https://make/fb"]})
  \/ ListPosts({1, DefaultLimit}, {0, 1}, {Null, "pending", "posted"})

SpecList == Init /\ [][NextList]_vars

\* SpecCrud: the handlers that create, change and remove records, over two
\* documents and the identifiers and payloads a request can carry
CrudPosts == { [post_text |-> "hi", scheduled_date |-> 0, platforms |-> <<"facebook">>] }
CrudJsons == {Missing, Malformed, Json([post_text |-> "edited", status |-> "pending"])}
CrudKeys == {SECRET, "wrong"}
WebhookPageIds == {Null, "page-1"}
WebhookTexts == {"", "hi"}
WebhookDates == {MissingDate, 1}
WebhookStatusNames == {"", "draft", "Scheduled"}
WebhookPlatformLists == {<<>>, <<"facebook", "linkedin">>}

NextCrud ==
  \/ CreatePost({SECRET}, {Json(v) : v \in CrudPosts}, {<<>>}, MaxPosts)
  \/ UpdatePost(IdInputs(MaxPosts), CrudKeys, CrudJsons, {<<>>}, {{}})
  \/ DeletePost(IdInputs(MaxPosts), CrudKeys)
  \/ ReceiveNotionWebhook(WebhookPageIds, BOOLEAN, WebhookTexts, {""}, WebhookDates,
                          WebhookStatusNames, WebhookPlatformLists, MaxPosts)

SpecCrud == Init /\ [][NextCrud]_vars

\* SpecLive: a record's way from pending to a final status while time
\* passes, the record is edited or deleted, and either trigger is invoked.
\* Time passes and a handler that has started its loop runs it to the end;
\* how often a trigger is invoked is up to the external scheduler.
LivePosts ==
  { [post_text |-> "hi", scheduled_date |-> d, platforms |-> p] :
      d \in 0..MaxTime, p \in {<<"facebook">>, <<"twitter">>} }
  \cup { [post_text |-> "hi", scheduled_date |-> 0] }
LiveUpdates ==
  { [status |-> "draft"],
    [status |-> "pending", scheduled_date |-> MaxTime, platforms |-> <<"facebook">>] }

InitLive == InitWith({Configured, NoMakeNoToken})

NextLive ==
  \/ Tick
  \/ CreatePost({SECRET}, {Json(v) : v \in LivePosts}, {<<>>}, MaxPostsCrud)
  \/ UpdatePost(1..MaxPostsCrud, {SECRET}, {Json(v) : v \in LiveUpdates}, {<<>>}, {{}})
  \/ DeletePost(1..MaxPostsCrud, {SECRET})
  \/ ProcessScheduledPosts({1})
  \/ TriggerPosts({1})
  \/ DirectTurn
  \/ ForwardTurn

SpecLive ==
  /\ InitLive /\ [][NextLive]_vars
  /\ WF_vars(Tick) /\ WF_vars(DirectTurn) /\ WF_vars(ForwardTurn)

\* ------------------------------------------------------------------ claims
AllOf(flags) == \A i \in 1..Len(flags) : flags[i]
NoneOf(flags) == \A i \in 1..Len(flags) : ~flags[i]

\* C1 (as claimed): after a turn of the direct trigger dispatched a post with
\* listed platforms, the stored status is posted when every publisher
\* succeeded, failed when every publisher failed, partial_success otherwise.
C1_StatusFollowsOutcomes ==
  (resp.op = "dispatch" /\ resp.mode = "direct" /\ ~resp.threw
     /\ Len(resp.succeeded) > 0 /\ resp.id \in Ids)
  => posts[resp.id].status =
       IF AllOf(resp.succeeded) THEN "posted"
       ELSE IF NoneOf(resp.succeeded) THEN "failed"
       ELSE "partial_success"

\* the requests the secret gate is examined on
GateJsons == {Missing} \cup {Json(v) : v \in AuthUpdates}
GateFiles == {<<>>, <<"b.mp4">>}
GateDeleted == {{}, {0}}

C2_WitnessDelete ==
  /\ resp.op = "DELETE" /\ resp.code = 401 /\ resp.id \in Ids
  /\ posts[resp.id].status = "pending"

\* C3 (as claimed): an update that carries parseable post data and whose
\* uploads succeed, and a delete, of a posted, failed or partial_success
\* post succeed (200) whatever secret is supplied, a wrong one or none.
C3_FinalPostsUngated ==
  \A id \in Ids :
    (posts[id].status \in FinalStatuses) =>
      \A key \in SubmittedKeys :
        /\ DELETE(id, key).code = 200
        /\ \A v \in AuthUpdates, files \in GateFiles, deleted \in GateDeleted :
             PUT(id, key, Json(v), files, deleted, TRUE).code = 200

\* C4 (as claimed): every stored status is one of the five enumerated values.
C4_StatusEnumerated == \A id \in Ids : posts[id].status \in Statuses

\* the documents stored before and after a step
Kept == Ids \cap DOMAIN posts'

\* C5 (as claimed): a stored status changes only from draft to pending or
\* from pending to posted, failed or partial_success.
C5_OnlyForwardTransitions ==
  [][\A id \in Kept :
       posts'[id].status # posts[id].status =>
         \/ posts[id].status = "draft" /\ posts'[id].status = "pending"
         \/ posts[id].status = "pending" /\ posts'[id].status \in FinalStatuses]_vars

\* C5 (amended): a stored status changes only by an accepted update, which
\* stores the status its request carries, or to posted, failed or
\* partial_success by a trigger's write-back or the completion callback,
\* whatever the status was; nothing but an update moves a post to draft or
\* to pending.
C5_TransitionsByWriter ==
  [][\A id \in Kept :
       posts'[id].status # posts[id].status =>
         \/ resp'.op = "PUT" /\ resp'.code = 200 /\ resp'.id = id
         \/ /\ resp'.op \in {"dispatch", "cleanup"} /\ resp'.id = id
            /\ posts'[id].status \in FinalStatuses]_vars

\* an update has just stored draft on a post the completion callback had
\* marked failed: a final status was left for draft
C5_Witness ==
  /\ resp.op = "PUT" /\ resp.code = 200 /\ resp.id \in Ids
  /\ posts[resp.id].status = "draft"
  /\ Has(posts[resp.id], "failure_reason")

\* C6: the triggers (both modes) and the completion callback store no
\* status but posted, failed or partial_success: the selection writes
\* nothing, a loop turn leaves the post it dispatched with one of the three
\* and every other document as it was, and an accepted callback leaves its
\* post posted or failed.
C6_AutomaticWritesFinal ==
  [][/\ resp'.op \in {"select", "trigger"} => posts' = posts
     /\ resp'.op = "dispatch" =>
          \A id \in Kept :
            IF id = resp'.id THEN posts'[id].status \in FinalStatuses
            ELSE posts'[id] = posts[id]
     /\ resp'.op = "cleanup" =>
          \A id \in Kept :
            IF id = resp'.id /\ resp'.code = 200
            THEN posts'[id].status \in {"posted", "failed"}
            ELSE posts'[id] = posts[id]]_vars

\* the forwarding trigger has just written a post it failed to forward
C6_Witness ==
  /\ resp.op = "dispatch" /\ resp.mode = "forward" /\ resp.threw /\ resp.id \in Ids
  /\ posts[resp.id].status = "failed"

\* C7 (as claimed): a stored post with an empty platform list has status draft.
C7_EmptyPlatformsOnlyDraft ==
  \A id \in Ids :
    (Has(posts[id], "platforms") /\ posts[id].platforms = <<>>)
      => posts[id].status = "draft"

\* the lookahead window of a trigger mode
Window(mode) == IF mode = "direct" THEN LookaheadHours ELSE 0

\* slot t takes its selection in this step
Selects(t) == trig[t].pc = "idle" /\ trig'[t].pc = "loop"

IdsOf(batch) == {batch[i]._id : i \in 1..Len(batch)}

\* C8: a trigger selects only documents that are stored as pending with a
\* scheduled_date at or before now plus the window of its mode, it holds
\* them as read at that moment, and a loop turn dispatches and writes only
\* the selected document whose turn it is: no other document is written.
C8_OnlyDuePendingDispatched ==
  [][\A t \in Triggers :
       /\ Selects(t) =>
            \A i \in 1..Len(trig'[t].pendingPosts) :
              LET post == trig'[t].pendingPosts[i] IN
                /\ post._id \in Ids
                /\ posts[post._id].status = "pending"
                /\ posts[post._id].scheduled_date <= now + Window(trig'[t].mode)
                /\ post = [_id |-> post._id] @@ posts[post._id]
       /\ (trig[t].pc = "loop" /\ trig'[t] # trig[t]) =>
            LET post == trig[t].pendingPosts[trig[t].idx] IN
              /\ resp'.op = "dispatch" /\ resp'.id = post._id
              /\ post.status = "pending"
              /\ \A id \in Kept : id # post._id => posts'[id] = posts[id]]_vars

\* a turn has dispatched one post while another stays pending because it is
\* scheduled beyond the window, and a draft that is due was not touched
C8_Witness ==
  /\ resp.op = "dispatch" /\ resp.id \in Ids
  /\ \E id \in Ids \ {resp.id} :
       \/ posts[id].status = "pending" /\ posts[id].scheduled_date > now + LookaheadHours
       \/ posts[id].status = "draft" /\ posts[id].scheduled_date <= now

\* C9: nothing claims a document before it is dispatched: a selection writes
\* nothing to the store and takes every pending document that is due, also
\* one that another invocation holds undispatched, and a held selection is
\* dispatched as taken; so two overlapping invocations dispatch the same post.
C9_NoClaimStep ==
  [][\A t \in Triggers :
       /\ Selects(t) =>
            /\ posts' = posts
            /\ \A id \in Ids :
                 (posts[id].status = "pending"
                    /\ posts[id].scheduled_date <= now + Window(trig'[t].mode))
                   => id \in IdsOf(trig'[t].pendingPosts)
       /\ (trig[t].pc = "loop" /\ trig'[t].pc = "loop") =>
            trig'[t].pendingPosts = trig[t].pendingPosts]_vars

\* two invocations that overlap have each dispatched the same post, and the
\* publishers answered success to both
C9_Witness ==
  /\ trig[1].pc = "loop" /\ trig[2].pc = "loop"
  /\ trig[1].idx = 2 /\ trig[2].idx = 2
  /\ trig[1].mode = "direct" /\ trig[2].mode = "direct"
  /\ trig[1].pendingPosts[1]._id = trig[2].pendingPosts[1]._id
  /\ trig[1].results[1].success /\ trig[2].results[1].success
  /\ resp.op = "dispatch"

\* C10: each loop turn dispatches the next selected document and leaves it
\* stored with posted, failed or partial_success, failed when the dispatch
\* threw; the loop goes on to the next document whatever the outcome, one
\* results entry per turn, and the call returns only after the last one.
C10_EveryAttemptWrittenBack ==
  [][\A t \in Triggers :
       (trig[t].pc = "loop" /\ trig'[t] # trig[t]) =>
         LET post == trig[t].pendingPosts[trig[t].idx] IN
           /\ resp'.op = "dispatch" /\ resp'.id = post._id
           /\ post._id \in Kept => posts'[post._id].status \in FinalStatuses
           /\ (resp'.threw /\ post._id \in Kept) => posts'[post._id].status = "failed"
           /\ IF trig[t].idx < Len(trig[t].pendingPosts)
              THEN /\ trig'[t].pc = "loop"
                   /\ trig'[t].idx = trig[t].idx + 1
                   /\ Len(trig'[t].results) = trig[t].idx
                   /\ resp'.code = 0
              ELSE /\ trig'[t].pc = "idle"
                   /\ resp'.code = 200]_vars

\* the dispatch of a post threw in the direct trigger, the post is stored
\* as failed, and the loop goes on with the documents that remain
C10_Witness ==
  /\ resp.op = "dispatch" /\ resp.mode = "direct" /\ resp.threw /\ resp.code = 0
  /\ resp.id \in Ids /\ posts[resp.id].status = "failed"
  /\ trig[resp.t].pc = "loop"

\* C11: in one invocation the k-th loop turn dispatches the k-th selected
\* document and no other, the selected documents being distinct, and the
\* results list holds after it one entry for each of the first k documents,
\* in order; the response is returned with the turn of the last document, so
\* its results list has exactly one entry per selected document.
C11_OneTurnOneEntryPerPost ==
  [][\A t \in Triggers :
       (trig[t].pc = "loop" /\ trig'[t] # trig[t]) =>
         LET pendingPosts == trig[t].pendingPosts
             k == trig[t].idx
         IN /\ \A i, j \in 1..Len(pendingPosts) :
                 i # j => pendingPosts[i]._id # pendingPosts[j]._id
            /\ Len(trig[t].results) = k - 1
            /\ resp'.id = pendingPosts[k]._id
            /\ Len(resp'.results) = k
            /\ \A i \in 1..k : resp'.results[i].postId = pendingPosts[i]._id
            /\ (resp'.code = 200) <=> (k = Len(pendingPosts))]_vars

\* a direct trigger call has returned after two posts, the first of which
\* failed: its results list has one entry for each
C11_Witness ==
  /\ resp.op = "dispatch" /\ resp.mode = "direct" /\ resp.code = 200
  /\ Len(resp.results) = 2
  /\ ~resp.results[1].success
  /\ resp.results[1].postId # resp.results[2].postId

\* C12 (as claimed): no trigger call selects a post stored as failed, and a
\* post a trigger call stored as failed (the completion callback, which
\* records a failure_reason, has not touched it) keeps that status until an
\* update changes it.
C12_FailedUntilUpdate ==
  [][/\ \A t \in Triggers :
          Selects(t) =>
            \A i \in 1..Len(trig'[t].pendingPosts) :
              posts[trig'[t].pendingPosts[i]._id].status # "failed"
     /\ \A id \in Kept :
          (posts[id].status = "failed" /\ ~Has(posts[id], "failure_reason")
             /\ posts'[id].status # "failed") =>
            resp'.op = "PUT" /\ resp'.code = 200 /\ resp'.id = id]_vars

\* C12 (amended): no trigger call selects a post stored as failed, so a
\* call that starts after the post was stored as failed never dispatches it;
\* the status failed is left only by an accepted update, by the completion
\* callback reporting a URL for the post (posted), or by the write-back of a
\* trigger call that had selected the post while it was still pending.
C12_NoAutomaticRetry ==
  [][/\ \A t \in Triggers :
          Selects(t) =>
            \A i \in 1..Len(trig'[t].pendingPosts) :
              posts[trig'[t].pendingPosts[i]._id].status # "failed"
     /\ \A id \in Kept :
          (posts[id].status = "failed" /\ posts'[id].status # "failed") =>
            \/ resp'.op = "PUT" /\ resp'.code = 200 /\ resp'.id = id
            \/ /\ resp'.op = "cleanup" /\ resp'.code = 200 /\ resp'.id = id
               /\ posts'[id].status = "posted"
            \/ /\ resp'.op = "dispatch" /\ resp'.id = id
               /\ trig[resp'.t].pc = "loop"
               /\ trig[resp'.t].pendingPosts[trig[resp'.t].idx].status = "pending"]_vars

\* a trigger call has just answered that nothing is pending while a post
\* that is due is stored as failed
C12_Witness ==
  /\ resp.op = "trigger" /\ resp.code = 200
  /\ \E id \in Ids : posts[id].status = "failed" /\ posts[id].scheduled_date <= now

\* the results entry of the post dispatched last
LastEntry == resp.results[Len(resp.results)]

\* a turn of the direct trigger has dispatched a stored post that lists
\* platforms, and the aggregator returned
Dispatched ==
  /\ resp.op = "dispatch" /\ resp.mode = "direct" /\ ~resp.threw
  /\ resp.id \in Ids
  /\ Len(posts[resp.id].platforms) > 0

\* C13 (as claimed): after the dispatch of a post with a non-empty platform
\* list, the keys of the stored post_links are exactly the listed platform
\* identifiers whose publisher returned success.
C13_LinksAreSucceededPlatforms ==
  Dispatched =>
    DOMAIN posts[resp.id].post_links
      = {posts[resp.id].platforms[i] : i \in {j \in 1..Len(resp.succeeded) : resp.succeeded[j]}}

\* C13 (amended): after the dispatch of a post with a non-empty platform
\* list, the keys of the stored post_links are exactly the lower-cased
\* identifiers of the listed platforms whose publisher returned success.
C13_LinksAreLowerCasedSucceeded ==
  Dispatched =>
    DOMAIN posts[resp.id].post_links
      = {ToLowerCase(posts[resp.id].platforms[i]) :
           i \in {j \in 1..Len(resp.succeeded) : resp.succeeded[j]}}

\* a post listing "LinkedIn" and "twitter" was dispatched: LinkedIn's
\* publisher succeeded, and the only link stored is under "linkedin"
C13_Witness ==
  /\ Dispatched
  /\ \E i, j \in 1..Len(posts[resp.id].platforms) :
       /\ posts[resp.id].platforms[i] = "LinkedIn" /\ resp.succeeded[i]
       /\ posts[resp.id].platforms[j] = "twitter"
  /\ DOMAIN posts[resp.id].post_links = {"linkedin"}

\* the platforms of a list whose publisher did not succeed, in list order
RECURSIVE FailedFrom(_, _, _)
FailedFrom(platforms, succeeded, i) ==
  IF i > Len(platforms) THEN <<>>
  ELSE (IF succeeded[i] THEN <<>> ELSE <<platforms[i]>>)
       \o FailedFrom(platforms, succeeded, i + 1)

\* C15: a dispatch attempts every platform on the list once, in list order,
\* whatever the earlier outcomes: the error message has one part for each
\* platform that failed, in list order (an unsupported identifier among
\* them), also for those that come after a failure, and the links hold the
\* URL of each platform that succeeded, also of those after a failure.
C15_EveryPlatformAttempted ==
  Dispatched =>
    LET platforms == posts[resp.id].platforms
        parts == LastEntry.error
    IN /\ Len(resp.succeeded) = Len(platforms)
       /\ [k \in 1..Len(parts) |-> parts[k].platform]
            = FailedFrom(platforms, resp.succeeded, 1)
       /\ \A i \in 1..Len(platforms) :
            resp.succeeded[i] => ToLowerCase(platforms[i]) \in DOMAIN LastEntry.links

\* a dispatch whose first platform is unsupported and whose last platform
\* succeeded after another failure in between
C15_Witness ==
  /\ Dispatched
  /\ Len(posts[resp.id].platforms) = MaxPlatforms
  /\ posts[resp.id].platforms[1] = "twitter"
  /\ ~resp.succeeded[2]
  /\ resp.succeeded[MaxPlatforms]
  /\ Len(LastEntry.error) = MaxPlatforms - 1

\* the error parts the platforms of a post report under net, in list order
RECURSIVE Parts(_, _, _)
Parts(post, net, i) ==
  IF i > Len(post.platforms) THEN <<>>
  ELSE LET platformResult == PlatformResult(post, post.platforms[i], net)
       IN (IF Has(platformResult, "error")
           THEN <<[platform |-> post.platforms[i], error |-> platformResult.error]>>
           ELSE <<>>) \o Parts(post, net, i + 1)

\* C16: for every stored post that has a platform list and every answer of
\* the network, the aggregator's success flag is true exactly when every
\* listed platform succeeded, and its error message is made of the parts
\* "<platform>: <error>" of the platforms that reported an error, in list
\* order (no message at all when none did).
C16_SuccessIffAllAndErrorsJoined ==
  \A id \in Ids, net \in NetOutcomes :
    Has(posts[id], "platforms") =>
      LET r == postToSocialMedia(posts[id], net) IN
        /\ ~r.threw
        /\ r.value.success
             <=> \A i \in 1..Len(posts[id].platforms) :
                   PlatformResult(posts[id], posts[id].platforms[i], net).success
        /\ IF Parts(posts[id], net, 1) = <<>>
           THEN ~Has(r.value, "error")
           ELSE Has(r.value, "error") /\ r.value.error = Parts(posts[id], net, 1)

\* a dispatch has reported failure with a message of two parts although a
\* platform of the list succeeded
C16_Witness ==
  /\ Dispatched
  /\ ~LastEntry.success
  /\ Len(LastEntry.error) = 2
  /\ LastEntry.error[1].platform # LastEntry.error[2].platform
  /\ \E i \in 1..Len(resp.succeeded) : resp.succeeded[i]

\* C14 (as claimed): every key of a stored post_links names a platform of
\* the post's platform list (identifiers compared in lower case).
C14_LinksWithinPlatforms ==
  \A id \in Ids :
    Has(posts[id], "post_links") =>
      \A key \in DOMAIN posts[id].post_links :
        \E i \in 1..Len(posts[id].platforms) :
          ToLowerCase(posts[id].platforms[i]) = key

\* the creates the secret check is examined on
CreateJsons == {Missing, Malformed} \cup {Json(v) : v \in AuthPosts}
CreateFiles == {<<>>, <<"a.png">>}

\* C17: whatever the request, a create stores a record only when the server
\* secret is configured and the supplied secret equals it; with no server
\* secret it answers 500 and with another secret, or none, 401, and in both
\* cases the store is unchanged and nothing was uploaded to the media host.
C17_CreateNeedsSecret ==
  \A submittedKey \in SubmittedKeys, postDataJSON \in CreateJsons,
     mediaFiles \in CreateFiles, isDraft \in BOOLEAN, uploadOk \in BOOLEAN :
    LET r == POST(submittedKey, postDataJSON, mediaFiles, isDraft, uploadOk)
        untouched == r.posts = posts /\ r.nextId = nextId /\ ~Has(r, "uploaded")
    IN /\ env.POST_SECRET_KEY = "" => (r.code = 500 /\ untouched)
       /\ (env.POST_SECRET_KEY # "" /\ submittedKey # env.POST_SECRET_KEY)
            => (r.code = 401 /\ untouched)
       /\ r.posts # posts
            => (env.POST_SECRET_KEY # "" /\ submittedKey = env.POST_SECRET_KEY
                  /\ r.code = 201)

\* a create was answered 401 after an accepted create with a media file had
\* stored its record: the store still holds that record only
C17_Witness ==
  /\ resp.op = "POST" /\ resp.code = 401 /\ resp.uploaded = <<>>
  /\ nextId = 2 /\ 1 \in Ids
  /\ Length(posts[1].post_media) = 1

\* C18 (as claimed): a create that is answered 201 has stored a record whose
\* body text is not empty and which, unless it is a draft, lists at least
\* one platform (the other requests being rejected with nothing stored).
C18_CreateValidates ==
  (resp.op = "POST" /\ resp.code = 201 /\ resp.id \in Ids) =>
    /\ posts[resp.id].post_text # ""
    /\ posts[resp.id].status # "draft" => posts[resp.id].platforms # <<>>

\* the number of stored documents with a status
StoredWith(status) == Cardinality({id \in Ids : posts[id].status = status})

C20_CreateThenListRoundTrip ==
  [][(/\ resp.op = "POST" /\ resp.code = 201
      /\ resp'.op = "GET"
      /\ resp'.request.skip = 0 /\ resp'.request.limit = DefaultLimit
      /\ resp'.request.status \in {Null, posts[resp.id].status})
     => \E i \in 1..Len(resp'.body.posts) :
          LET entry == resp'.body.posts[i]
              postData == resp.request.postData.value
              files == resp.request.media
          IN /\ entry._id = ObjectIdToString(resp.id)
             /\ entry.post_text = postData.post_text
             /\ entry.platforms = postData.platforms
             /\ IsArr(entry.post_media)
             /\ Len(entry.post_media.array) = Len(files)
             /\ \A k \in 1..Len(files) :
                  entry.post_media.array[k] = SecureUrl(files[k])]_vars

\* a default listing shows, ahead of an older record, a record created at
\* the present time with two media URLs, in the order of its two files
C20_Witness ==
  /\ resp.op = "GET" /\ resp.request.skip = 0 /\ resp.request.limit = DefaultLimit
  /\ resp.request.status = Null
  /\ Len(resp.body.posts) = 2
  /\ resp.body.posts[1].created_at = ToISOString(now)
  /\ resp.body.posts[2].created_at # ToISOString(now)
  /\ resp.body.posts[1].post_text = "yo"
  /\ resp.body.posts[1].platforms = <<"linkedin", "facebook">>
  /\ resp.body.posts[1].post_media = Arr(<<SecureUrl("b.mp4"), SecureUrl("a.png")>>)

\* the entries of a media list that are not marked deleted (marks are
\* 0-based indexes into the list), in list order
RECURSIVE Undeleted(_, _)
Undeleted(urls, deleted) ==
  IF urls = <<>> THEN <<>>
  ELSE Undeleted(SubSeq(urls, 1, Len(urls) - 1), deleted)
       \o (IF (Len(urls) - 1) \in deleted THEN <<>> ELSE <<urls[Len(urls)]>>)

\* the deletion marks an update is examined with
MarkedSets == {{}, {0}, {1}, {0, 1}}

\* C21 (as claimed): an accepted update of a record that has a media list
\* stores as its media list the entries of the previous list that are not
\* marked deleted followed by the URLs of the uploaded files in upload order,
\* the empty list when every entry is marked and nothing is uploaded.
C21_MediaListResolved ==
  \A id \in Ids :
    (Has(posts[id], "post_media") /\ IsArr(posts[id].post_media)) =>
      \A v \in AuthUpdates, files \in GateFiles, deleted \in MarkedSets :
        LET r == PUT(id, SECRET, Json(v), files, deleted, TRUE) IN
          r.code = 200 =>
            r.posts[id].post_media
              = Arr(Undeleted(posts[id].post_media.array, deleted) \o UploadAll(files))

\* C22 (as claimed): an update changes the stored scheduled_date of a record
\* only when the record's status is draft or pending.
C22_DateEditableOnlyBeforeDispatch ==
  [][\A id \in Kept :
       (resp'.op = "PUT" /\ posts'[id].scheduled_date # posts[id].scheduled_date)
         => posts[id].status \in {"draft", "pending"}]_vars

\* the identifiers of no stored record: never handed out, or deleted
UnknownIds == (1..MaxPosts) \ Ids

\* a request leaves the store as it is
Untouched(r) == r.posts = posts /\ r.nextId = nextId

\* C23 (as claimed): a delete answered 200 removes the identified record and
\* no other; delete and update answer 404 for an unknown id and 400 for a
\* missing or malformed id, whatever else the request carries, and leave
\* every stored record unchanged.
C23_DeleteExactAndIdErrors ==
  \A id \in IdInputs(MaxPosts), key \in CrudKeys :
    LET d == DELETE(id, key) IN
      /\ d.code = 200 =>
           /\ id \in Ids
           /\ DOMAIN d.posts = Ids \ {id}
           /\ \A j \in Ids \ {id} : d.posts[j] = posts[j]
      /\ id \in {MissingId, InvalidId} => (d.code = 400 /\ Untouched(d))
      /\ id \in UnknownIds => (d.code = 404 /\ Untouched(d))
      /\ \A json \in CrudJsons :
           LET u == PUT(id, key, json, <<>>, {}, TRUE) IN
             /\ id \in {MissingId, InvalidId} => (u.code = 400 /\ Untouched(u))
             /\ id \in UnknownIds => (u.code = 404 /\ Untouched(u))

\* C23 (amended): a delete answered 200 removes the identified record and no
\* other; a delete answers 404 for an unknown id and 400 for a missing or
\* malformed id; so does an update whose postData field is absent or parses,
\* while an update whose postData does not parse is answered 500 before its
\* id is looked at; in all these cases every stored record is unchanged.
C23_DeleteExactAndIdErrorsAfterParse ==
  \A id \in IdInputs(MaxPosts), key \in CrudKeys :
    LET d == DELETE(id, key) IN
      /\ d.code = 200 =>
           /\ id \in Ids
           /\ DOMAIN d.posts = Ids \ {id}
           /\ \A j \in Ids \ {id} : d.posts[j] = posts[j]
      /\ id \in {MissingId, InvalidId} => (d.code = 400 /\ Untouched(d))
      /\ id \in UnknownIds => (d.code = 404 /\ Untouched(d))
      /\ \A json \in CrudJsons :
           LET u == PUT(id, key, json, <<>>, {}, TRUE) IN
             /\ id \in {MissingId, InvalidId} =>
                  (u.code = (IF json = Malformed THEN 500 ELSE 400) /\ Untouched(u))
             /\ id \in UnknownIds =>
                  (u.code = (IF json = Malformed THEN 500 ELSE 404) /\ Untouched(u))

\* a delete of the older of two records was answered 200: that record is
\* gone and the newer one is still stored
C23_Witness ==
  /\ resp.op = "DELETE" /\ resp.code = 200 /\ resp.id = 1
  /\ Ids = {2}

\* an update naming the deleted record was answered 404 while another
\* record is stored
C23_WitnessUnknown ==
  /\ resp.op = "PUT" /\ resp.code = 404 /\ resp.id = 1
  /\ Ids = {2}

\* what the webhook does with a payload that has all three required values
CreatesOne(r, statusName, platforms) ==
  /\ r.code = 200
  /\ r.nextId = nextId + 1
  /\ DOMAIN r.posts = Ids \cup {nextId}
  /\ \A id \in Ids : r.posts[id] = posts[id]
  /\ r.posts[nextId].status = (IF statusName = "" THEN "pending" ELSE statusName)
  /\ r.posts[nextId].platforms = platforms

C25_WitnessNoProperties ==
  /\ resp.op = "notion-webhook" /\ resp.code = 500
  /\ Ids = {1} /\ nextId = 2

\* the post_links maps a callback request can make: the URLs it carries,
\* under facebook, linkedin, instagram and x
CallbackLinks ==
  { <<>>,
    [facebook |-> "https://make/fb"],
    [linkedin |-> "https://make/li", x |-> "https://make/x"] }

SameLinks(a, b) == DOMAIN a = DOMAIN b /\ \A k \in DOMAIN a : a[k] = b[k]

\* C24: for every stored record and every set of URLs a callback can carry,
\* the callback naming the record answers 200 and leaves it posted when at
\* least one URL is supplied, failed with a failure reason when none is, its
\* post_links being exactly the supplied URLs whatever links it had before;
\* no other record is written.
C24_CallbackFinalizes ==
  \A id \in Ids, links \in CallbackLinks :
    LET r == Cleanup(id, links) IN
      /\ r.code = 200
      /\ DOMAIN r.posts = Ids
      /\ r.posts[id].status = (IF DOMAIN links # {} THEN "posted" ELSE "failed")
      /\ DOMAIN links = {} => Has(r.posts[id], "failure_reason")
      /\ SameLinks(r.posts[id].post_links, links)
      /\ \A j \in Ids \ {id} : r.posts[j] = posts[j]

\* a callback without URLs has marked as failed, and left without links, a
\* record that lists a platform and is neither draft nor pending any more
C24_Witness ==
  /\ resp.op = "cleanup" /\ resp.code = 200 /\ resp.id \in Ids
  /\ posts[resp.id].status = "failed"
  /\ Has(posts[resp.id], "failure_reason")
  /\ DOMAIN posts[resp.id].post_links = {}
  /\ posts[resp.id].platforms = <<"facebook">>

\* a callback with a URL has marked as posted a record that an earlier
\* callback had marked failed, and its URL is the only link stored
C24_WitnessReplaced ==
  /\ resp.op = "cleanup" /\ resp.code = 200 /\ resp.id \in Ids
  /\ posts[resp.id].status = "posted"
  /\ Has(posts[resp.id], "failure_reason")
  /\ SameLinks(posts[resp.id].post_links, [facebook |-> "https://make/fb"])

\* C27 (as claimed): with the access token configured, the professional-
\* network publisher succeeds, and returns a URL, exactly when the publish
\* request was accepted after registration, download and upload all
\* succeeded for a post that has media, and exactly when the text-only
\* publish request was accepted for a post whose media is absent or empty.
C27_PublishAfterMediaSteps ==
  \A id \in Ids, net \in NetOutcomes :
    env.LINKEDIN_ACCESS_TOKEN =>
      LET post == posts[id]
          r == postToLinkedIn(post, net)
          hasMedia == Has(post, "post_media") /\ Length(post.post_media) > 0
      IN /\ r.success = (IF hasMedia
                         THEN net.register /\ net.download /\ net.upload /\ net.publish
                         ELSE net.publish)
         /\ r.success <=> Has(r, "links")

C29_EmptyListStoredPosted ==
  (/\ resp.op = "dispatch" /\ resp.mode = "direct" /\ resp.id \in Ids
   /\ Has(posts[resp.id], "platforms") /\ posts[resp.id].platforms = <<>>)
  => /\ ~resp.threw
     /\ resp.succeeded = <<>>
     /\ LastEntry.success
     /\ DOMAIN LastEntry.links = {}
     /\ LastEntry.error = <<>>
     /\ LastEntry.status = "posted"
     /\ posts[resp.id].status = "posted"
     /\ DOMAIN posts[resp.id].post_links = {}

\* a record the inbound webhook stored as pending with an empty platform
\* list has been dispatched by the direct trigger and is stored as posted
C29_Witness ==
  /\ resp.op = "dispatch" /\ resp.mode = "direct" /\ resp.id \in Ids
  /\ posts[resp.id].platforms = <<>>
  /\ IsStr(posts[resp.id].post_media)
  /\ posts[resp.id].status = "posted"

\* the same for a record stored by the create handler
C29_WitnessCreated ==
  /\ resp.op = "dispatch" /\ resp.mode = "direct" /\ resp.id \in Ids
  /\ posts[resp.id].platforms = <<>>
  /\ IsArr(posts[resp.id].post_media)
  /\ posts[resp.id].status = "posted"

\* the lower-cased platforms of a post whose publisher succeeded
SucceededKeys(post, succeeded) ==
  {ToLowerCase(post.platforms[i]) : i \in {j \in 1..Len(succeeded) : succeeded[j]}}

\* C30: a loop turn dispatches the document as the call read it at its
\* selection (one publisher outcome per platform of that copy, the stored
\* links being those of that copy's platforms) and writes its outcome to the
\* record of that id whatever the record's stored status and content have
\* become since: the stored status is the trigger's, posted, failed or
\* partial_success, and the text and platform list an update stored in
\* between stay as the update left them.
C30_WriteBackKeyedByIdOnly ==
  [][\A t \in Triggers :
       (trig[t].pc = "loop" /\ trig'[t] # trig[t]) =>
         LET post == trig[t].pendingPosts[trig[t].idx]
             id == post._id
         IN /\ resp'.op = "dispatch" /\ resp'.id = id
            /\ trig[t].mode = "direct" =>
                 Len(resp'.succeeded) = (IF Has(post, "platforms") THEN Len(post.platforms) ELSE 0)
            /\ id \in Kept =>
                 /\ posts'[id].status \in FinalStatuses
                 /\ trig[t].mode = "direct" =>
                      posts'[id].status = resp'.results[Len(resp'.results)].status
                 /\ (trig[t].mode = "direct" /\ ~resp'.threw) =>
                      DOMAIN posts'[id].post_links = SucceededKeys(post, resp'.succeeded)
                 /\ posts'[id].post_text = posts[id].post_text
                 /\ Has(posts[id], "platforms") => posts'[id].platforms = posts[id].platforms]_vars

\* the direct trigger has published to one platform, and stored as posted
\* with that platform's link, a record whose stored platform list is empty:
\* an update emptied the list after the call had selected the record
C30_Witness ==
  /\ resp.op = "dispatch" /\ resp.mode = "direct" /\ resp.id \in Ids
  /\ posts[resp.id].platforms = <<>>
  /\ Len(resp.succeeded) = 1 /\ resp.succeeded[1]
  /\ posts[resp.id].status = "posted"
  /\ DOMAIN posts[resp.id].post_links = {"facebook"}

\* the record is pending and its scheduled time has arrived
Due(id) == id \in Ids /\ posts[id].status = "pending" /\ posts[id].scheduled_date <= now

\* the record has a final status, or was edited to draft, or was deleted
Settled(id) == id \notin Ids \/ posts[id].status \in FinalStatuses \cup {"draft"}

EveryDueSettled == \A id \in 1..MaxPostsCrud : Due(id) ~> Settled(id)

\* the external scheduler keeps invoking a trigger
DirectInvoked == WF_vars(ProcessScheduledPosts({1}))
ForwardInvoked == WF_vars(TriggerPosts({1}))

\* C26 (as claimed): if the dispatch trigger (the direct one or the
\* forwarding one) is invoked repeatedly, every pending record whose
\* scheduled time has arrived eventually has a status among posted, failed
\* and partial_success, unless it is edited to draft or deleted first.
C26_DueEventuallyFinal ==
  (DirectInvoked \/ ForwardInvoked) => EveryDueSettled

\* C26 (amended): the same, where the forwarding trigger counts only in a
\* deployment that has the workflow webhook URL and API key configured.
C26_DueEventuallyFinalWhenConfigured ==
  (DirectInvoked \/ (env.MAKE /\ ForwardInvoked)) => EveryDueSettled

\* the forwarding trigger has forwarded, and stored as partial_success, a
\* record that an update had rescheduled to a later hour, once that hour
\* had come
C26_Witness ==
  /\ resp.op = "dispatch" /\ resp.mode = "forward" /\ ~resp.threw /\ resp.id \in Ids
  /\ posts[resp.id].status = "partial_success"
  /\ posts[resp.id].scheduled_date = MaxTime
  /\ posts[resp.id].created_at < MaxTime
  /\ now = MaxTime
====
